---- MODULE Spec2Model ----
(***************************************************************************)
(* Jira -> Asana webhook adapter (AsanaPython.py).                         *)
(*                                                                         *)
(* Python strings are sequences of one-character strings.  JSON / Python   *)
(* values are records of one shape, tagged by t:                           *)
(*   "str"  (s), "int" (n), "bool" (n = 0 or 1), "null", "list" (items),   *)
(*   "dict" (keys, items: insertion-ordered, keys are strings),            *)
(*   "absent" (no value: a missing key, before a default is applied).      *)
(* Three characters outside ASCII are written by their code points:        *)
(*   "U+00E9" (e acute), "U+1F600" (an emoji), "U+D83D" (a lone surrogate, *)
(*   which json.loads accepts as \ud83d and no codec encodes).             *)
(***************************************************************************)
EXTENDS Integers, Sequences, FiniteSets, TLC

VARIABLES pc, request, project, stdout, outbox, reply, task_result, responses,
          adf_in, adf_out, adf_pc

vars == <<pc, request, project, stdout, outbox, reply, task_result, responses,
          adf_in, adf_out, adf_pc>>

(***************************************************************************)
(* Bounds of the enumerated inputs.                                        *)
(***************************************************************************)
MaxInline == 1
MaxBlocks == 2
MaxDescBlocks == 1

(***************************************************************************)
(* String literals of the source.                                          *)
(***************************************************************************)
S_content == <<"c", "o", "n", "t", "e", "n", "t">>
S_type == <<"t", "y", "p", "e">>
S_text == <<"t", "e", "x", "t">>
S_paragraph == <<"p", "a", "r", "a", "g", "r", "a", "p", "h">>
S_issue == <<"i", "s", "s", "u", "e">>
S_key == <<"k", "e", "y">>
S_fields == <<"f", "i", "e", "l", "d", "s">>
S_summary == <<"s", "u", "m", "m", "a", "r", "y">>
S_description == <<"d", "e", "s", "c", "r", "i", "p", "t", "i", "o", "n">>
S_UNKNOWN == <<"U", "N", "K", "N", "O", "W", "N">>
S_NoTitle == <<"N", "o", " ", "T", "i", "t", "l", "e">>
S_data == <<"d", "a", "t", "a">>
S_gid == <<"g", "i", "d">>
S_Unknown == <<"U", "n", "k", "n", "o", "w", "n">>
S_JiraIssue == <<"J", "i", "r", "a", " ", "I", "s", "s", "u", "e", ":", " ">>
S_OriginalSummary == <<"\n", "O", "r", "i", "g", "i", "n", "a", "l", " ", "S", "u", "m", "m", "a", "r", "y", ":", " ">>
S_BlankLine == <<"\n", "\n">>
S_Description == <<"D", "e", "s", "c", "r", "i", "p", "t", "i", "o", "n", ":", "\n">>
S_AsanaUrl == <<"h", "t", "t", "p", "s", ":", "/", "/", "a", "p", "p", ".", "a", "s", "a", "n", "a", ".", "c", "o", "m", "/", "0", "/">>
S_None == <<"N", "o", "n", "e">>
S_True == <<"T", "r", "u", "e">>
S_False == <<"F", "a", "l", "s", "e">>

(***************************************************************************)
(* Python / JSON values.                                                   *)
(***************************************************************************)
JStr(s) == [t |-> "str", s |-> s, n |-> 0, keys |-> <<>>, items |-> <<>>]
JInt(n) == [t |-> "int", s |-> <<>>, n |-> n, keys |-> <<>>, items |-> <<>>]
JBool(b) == [t |-> "bool", s |-> <<>>, n |-> IF b THEN 1 ELSE 0, keys |-> <<>>, items |-> <<>>]
JNull == [t |-> "null", s |-> <<>>, n |-> 0, keys |-> <<>>, items |-> <<>>]
JList(items) == [t |-> "list", s |-> <<>>, n |-> 0, keys |-> <<>>, items |-> items]
JDict(keys, items) == [t |-> "dict", s |-> <<>>, n |-> 0, keys |-> keys, items |-> items]
Absent == [t |-> "absent", s |-> <<>>, n |-> 0, keys |-> <<>>, items |-> <<>>]

\* isinstance(v, dict)
IsDict(v) == v.t = "dict"

\* k in d, for a dict d
Has(d, k) == \E i \in 1..Len(d.keys) : d.keys[i] = k

\* d.get(k, default), for a dict d
Get(d, k, default) ==
    IF Has(d, k)
    THEN d.items[CHOOSE i \in 1..Len(d.keys) : d.keys[i] = k]
    ELSE default

\* bool(v): Python truthiness
Truthy(v) ==
    CASE v.t = "str" -> Len(v.s) > 0
      [] v.t = "int" -> v.n # 0
      [] v.t = "bool" -> v.n = 1
      [] v.t = "list" -> Len(v.items) > 0
      [] v.t = "dict" -> Len(v.keys) > 0
      [] OTHER -> FALSE

\* iter(v) succeeds: a str, list or dict; anything else raises TypeError
Iterable(v) == v.t \in {"str", "list", "dict"}

\* The elements a for loop over v visits: items of a list, characters of a
\* str, keys of a dict.
Elements(v) ==
    CASE v.t = "list" -> v.items
      [] v.t = "str" -> [i \in 1..Len(v.s) |-> JStr(<<v.s[i]>>)]
      [] v.t = "dict" -> [i \in 1..Len(v.keys) |-> JStr(v.keys[i])]
      [] OTHER -> <<>>

Digits == <<"0", "1", "2", "3", "4", "5", "6", "7", "8", "9">>

\* str(n) for an int n >= 0
RECURSIVE IntStr(_)
IntStr(n) == IF n < 10 THEN <<Digits[n + 1]>>
             ELSE IntStr(n \div 10) \o <<Digits[(n % 10) + 1]>>

EAcute == "U+00E9"
Emoji == "U+1F600"
Surrogate == "U+D83D"

\* The escaped form of one character inside repr() of a str (the strings
\* used here contain no quote characters, so repr uses single quotes): a
\* printable character stays, a lone surrogate is not printable.
ReprChar(c) == IF c = "\n" THEN <<"\\", "n">>
               ELSE IF c = "\\" THEN <<"\\", "\\">>
               ELSE IF c = Surrogate THEN <<"\\", "u", "d", "8", "3", "d">>
               ELSE <<c>>

RECURSIVE ReprChars(_)
ReprChars(s) == IF s = <<>> THEN <<>> ELSE ReprChar(Head(s)) \o ReprChars(Tail(s))

\* repr(v)
RECURSIVE PyRepr(_)
RECURSIVE ReprItems(_, _)
RECURSIVE ReprPairs(_, _, _)
PyRepr(v) ==
    CASE v.t = "str" -> <<"'">> \o ReprChars(v.s) \o <<"'">>
      [] v.t = "int" -> IntStr(v.n)
      [] v.t = "bool" -> IF v.n = 1 THEN S_True ELSE S_False
      [] v.t = "list" -> <<"[">> \o ReprItems(v.items, 1) \o <<"]">>
      [] v.t = "dict" -> <<"{">> \o ReprPairs(v.keys, v.items, 1) \o <<"}">>
      [] OTHER -> S_None
ReprItems(items, i) ==
    IF i > Len(items) THEN <<>>
    ELSE (IF i > 1 THEN <<",", " ">> ELSE <<>>)
         \o PyRepr(items[i]) \o ReprItems(items, i + 1)
ReprPairs(keys, items, i) ==
    IF i > Len(keys) THEN <<>>
    ELSE (IF i > 1 THEN <<",", " ">> ELSE <<>>)
         \o PyRepr(JStr(keys[i])) \o <<":", " ">> \o PyRepr(items[i])
         \o ReprPairs(keys, items, i + 1)

\* str(v): a str is itself, anything else is its repr
PyStr(v) == IF v.t = "str" THEN v.s ELSE PyRepr(v)

(***************************************************************************)
(* log_message: print() to sys.stdout, whose encoding (errors = strict)    *)
(* is stdout.  print raises UnicodeEncodeError when the message holds a    *)
(* character the encoding lacks; the timestamp and the level are ASCII.    *)
(***************************************************************************)
Encodes(encoding, c) ==
    CASE c = Surrogate -> FALSE
      [] c = Emoji -> encoding = "utf-8"
      [] c = EAcute -> encoding \in {"utf-8", "cp1252"}
      [] OTHER -> TRUE

\* log_message(message, level) raises
log_message_raises(encoding, message) ==
    \E i \in 1..Len(message) : ~Encodes(encoding, message[i])

\* sep.join(parts), for a sequence of strings
RECURSIVE Join(_, _)
Join(sep, parts) ==
    IF parts = <<>> THEN <<>>
    ELSE IF Len(parts) = 1 THEN parts[1]
    ELSE parts[1] \o sep \o Join(sep, Tail(parts))

(***************************************************************************)
(* extract_paragraph_text: the for loop over paragraph["content"].  The    *)
(* loop raises at the first item that has no .get (AttributeError); the    *)
(* parts collected are the values of item["text"], whatever their type.    *)
(***************************************************************************)
RECURSIVE ParagraphLoop(_, _, _)
ParagraphLoop(items, i, text_parts) ==
    IF i > Len(items) THEN [raised |-> FALSE, parts |-> text_parts]
    ELSE IF ~IsDict(items[i]) THEN [raised |-> TRUE, parts |-> text_parts]
    ELSE IF Get(items[i], S_type, JNull) = JStr(S_text) /\ Has(items[i], S_text)
         THEN ParagraphLoop(items, i + 1, Append(text_parts, Get(items[i], S_text, JNull)))
         ELSE ParagraphLoop(items, i + 1, text_parts)

\* "".join(text_parts) raises TypeError unless every part is a str
AllStr(parts) == \A i \in 1..Len(parts) : parts[i].t = "str"

Strs(parts) == [i \in 1..Len(parts) |-> parts[i].s]

\* What the except clause of extract_paragraph_text returns.
ParagraphExcept == <<>>

\* extract_paragraph_text(paragraph), for a dict paragraph
extract_paragraph_text(paragraph) ==
    IF Has(paragraph, S_content)
    THEN LET content == Get(paragraph, S_content, JNull)
             loop == ParagraphLoop(Elements(content), 1, <<>>)
         IN  IF ~Iterable(content) \/ loop.raised \/ ~AllStr(loop.parts)
             THEN ParagraphExcept
             ELSE Join(<<>>, Strs(loop.parts))
    ELSE <<>>

(***************************************************************************)
(* extract_text_from_adf: the for loop over adf_content["content"].        *)
(***************************************************************************)
\* Variant: empty paragraph texts are appended too.
KeepEveryParagraph(paragraph_text) == TRUE

\* if paragraph_text: text_parts.append(paragraph_text)
KeepParagraph(paragraph_text) == Len(paragraph_text) > 0

RECURSIVE AdfLoop(_, _, _)
AdfLoop(items, i, text_parts) ==
    IF i > Len(items) THEN [raised |-> FALSE, parts |-> text_parts]
    ELSE IF ~IsDict(items[i]) THEN [raised |-> TRUE, parts |-> text_parts]
    ELSE IF Get(items[i], S_type, JNull) = JStr(S_paragraph)
         THEN LET paragraph_text == extract_paragraph_text(items[i])
              IN  IF KeepParagraph(paragraph_text)
                  THEN AdfLoop(items, i + 1, Append(text_parts, paragraph_text))
                  ELSE AdfLoop(items, i + 1, text_parts)
         ELSE AdfLoop(items, i + 1, text_parts)

\* Variant: the except clause returns the empty string.
AdfExceptEmpty(adf_content) == <<>>

\* What the except clause of extract_text_from_adf returns.
AdfExcept(adf_content) == PyStr(adf_content)

extract_text_from_adf(adf_content) ==
    IF IsDict(adf_content) /\ Has(adf_content, S_content)
    THEN LET content == Get(adf_content, S_content, JNull)
             loop == AdfLoop(Elements(content), 1, <<>>)
         IN  IF ~Iterable(content) \/ loop.raised
             THEN AdfExcept(adf_content)
             ELSE Join(<<"\n">>, loop.parts)
    ELSE PyStr(adf_content)

(***************************************************************************)
(* Inputs of the normalizer: rich-text documents and other values.         *)
(***************************************************************************)
S_doc == <<"d", "o", "c">>
S_mention == <<"m", "e", "n", "t", "i", "o", "n">>
S_heading == <<"h", "e", "a", "d", "i", "n", "g">>
S_Hello == <<"H", "e", "l", "l", "o">>

SeqsUpTo(S, n) == UNION {[1..k -> S] : k \in 0..n}

TextNode(text) == JDict(<<S_type, S_text>>, <<JStr(S_text), text>>)

Texts == {<<"a">>, <<>>, <<"b", "\n", "c">>}

\* Inline nodes: text nodes, a text node whose text is a number, a text node
\* without text, a node of another kind, and a value that is no object.
InlineNodes ==
    {TextNode(JStr(s)) : s \in Texts}
    \cup {TextNode(JInt(5)),
          JDict(<<S_type>>, <<JStr(S_text)>>),
          JDict(<<S_type, S_text>>, <<JStr(S_mention), JStr(<<"m">>)>>),
          JInt(5)}

Paragraph(content) == JDict(<<S_type, S_content>>, <<JStr(S_paragraph), content>>)

Paragraphs ==
    {Paragraph(JList(c)) : c \in SeqsUpTo(InlineNodes, MaxInline)}
    \cup {JDict(<<S_type>>, <<JStr(S_paragraph)>>), Paragraph(JInt(5))}

\* Block nodes: paragraphs, a block of another kind, a value that is no object.
Blocks ==
    Paragraphs
    \cup {JDict(<<S_type, S_content>>,
                <<JStr(S_heading), JList(<<TextNode(JStr(<<"h">>))>>)>>),
          JInt(5)}

Doc(content) == JDict(<<S_type, S_content>>, <<JStr(S_doc), content>>)

\* Documents whose content is no list of blocks.
OddDocs ==
    {JDict(<<S_type>>, <<JStr(S_doc)>>),
     Doc(JInt(5)), Doc(JNull), Doc(JStr(<<>>)), Doc(JStr(<<"x">>)),
     Doc(JDict(<<>>, <<>>)), Doc(JDict(<<S_type>>, <<JStr(S_doc)>>))}

DocsUpTo(n) == {Doc(JList(c)) : c \in SeqsUpTo(Blocks, n)} \cup OddDocs

NormalizeInputs ==
    DocsUpTo(MaxBlocks)
    \cup {JStr(S_Hello), JStr(<<>>), JInt(7), JNull, JBool(TRUE), JList(<<JInt(1)>>)}


(***************************************************************************)
(* TaskResult: the dict a handler returns.  keys names the keys the dict   *)
(* has; a key it lacks holds a placeholder.  message holds the fixed       *)
(* prefix of the message (the interpolated tail, an exception text or a    *)
(* response body, is not kept).                                            *)
(***************************************************************************)
Result(keys, status, message, error_type, status_code, task_id, task_name, asana_url) ==
    [keys |-> keys, status |-> status, message |-> message,
     error_type |-> error_type, status_code |-> status_code,
     task_id |-> task_id, task_name |-> task_name, asana_url |-> asana_url]

NoResult == Result({}, "", "", "", 0, Absent, <<>>, <<>>)

Created == 201

\* f"https://app.asana.com/0/{ASANA_PROJECT_ID}/{task_gid}"
AsanaUrl(project_id, task_gid) ==
    S_AsanaUrl \o PyStr(project_id) \o <<"/">> \o PyStr(task_gid)

Success(task_gid, task_name, project_id) ==
    Result({"status", "message", "task_id", "task_name", "asana_url"},
           "success", "Task created successfully in Asana", "", 0,
           task_gid, task_name, AsanaUrl(project_id, task_gid))

\* The else branch: any status other than 201.
ApiFailure(status_code) ==
    Result({"status", "message", "error_type", "status_code"},
           "error", "Asana API Error: ", "asana_api", status_code, Absent, <<>>, <<>>)

\* except requests.RequestException
NetworkFailure ==
    Result({"status", "message", "error_type"},
           "error", "Network error while calling Asana API: ", "network",
           0, Absent, <<>>, <<>>)

\* except Exception, in create_asana_task
UnexpectedFailure ==
    Result({"status", "message", "error_type"},
           "error", "Unexpected error creating Asana task: ", "task_creation",
           0, Absent, <<>>, <<>>)

\* except Exception, in create_asana_task_from_jira_webhook
ProcessingFailure ==
    Result({"status", "message", "error_type"},
           "error", "Error processing webhook data: ", "processing",
           0, Absent, <<>>, <<>>)

\* jsonify({"status": "error", "message": "Expected JSON data"})
ExpectedJsonBody ==
    Result({"status", "message"}, "error", "Expected JSON data", "", 0, Absent, <<>>, <<>>)

\* The framework's own answer to a body that request.get_json() cannot
\* parse (BadRequest): no TaskResult, an error page.
BadRequestPage ==
    Result({}, "", "Bad Request", "", 0, Absent, <<>>, <<>>)

\* The framework's answer to an exception that leaves the view function.
InternalErrorPage ==
    Result({}, "", "Internal Server Error", "", 0, Absent, <<>>, <<>>)

(***************************************************************************)
(* create_asana_task.  outcome is what requests.post does:                 *)
(*   kind "status": a response with status code, and a body that is JSON   *)
(*     (body) or not (is_json = FALSE); json_error is the handler that     *)
(*     catches response.json() failing on such a body: the exception is a  *)
(*     requests.RequestException in requests >= 2.27 ("network") and a     *)
(*     plain ValueError before ("task_creation");                          *)
(*   kind "transport": requests.post raises a requests.RequestException;   *)
(*   kind "unexpected": it raises any other exception.                     *)
(* text is response.text of a response whose status is not 201, and        *)
(* str(e) of the exception requests.post raises.                           *)
(* The result: returned tells that create_asana_task returned result;      *)
(* otherwise an exception left it (log_message raised inside an except     *)
(* clause, where no other clause of the try catches it).                   *)
(***************************************************************************)
Outcome(kind, code, is_json, body, json_error, text) ==
    [kind |-> kind, code |-> code, is_json |-> is_json, body |-> body,
     json_error |-> json_error, text |-> text]

Returns(result) == [returned |-> TRUE, result |-> result]

Escapes == [returned |-> FALSE, result |-> NoResult]

\* The body of the POST: {"data": {"name", "notes", "projects": [project]}}
Payload(task_name, task_notes, project_id) ==
    [name |-> task_name, notes |-> task_notes, projects |-> <<project_id>>]

\* requests.post(...): the request goes out, once.
SendRequest(sent, payload) == Append(sent, payload)

\* The branch for response.status_code == 201.
OnCreated(task_name, project_id, outcome) ==
    IF ~outcome.is_json
    THEN (IF outcome.json_error = "network" THEN NetworkFailure ELSE UnexpectedFailure)
    ELSE IF ~IsDict(outcome.body) THEN UnexpectedFailure
    ELSE IF ~IsDict(Get(outcome.body, S_data, JDict(<<>>, <<>>))) THEN UnexpectedFailure
    ELSE Success(Get(Get(outcome.body, S_data, JDict(<<>>, <<>>)), S_gid, JStr(S_Unknown)),
                 task_name, project_id)

\* The else branch: log_message(error_msg) with response.text in it; when
\* it raises, except Exception catches the UnicodeEncodeError (whose own
\* text is ASCII).
OnOtherStatus(encoding, outcome) ==
    IF log_message_raises(encoding, outcome.text)
    THEN UnexpectedFailure
    ELSE ApiFailure(outcome.code)

\* An except clause: log_message(error_msg) with str(e) in it, then return.
OnException(encoding, outcome, failure) ==
    IF log_message_raises(encoding, outcome.text)
    THEN Escapes
    ELSE Returns(failure)

create_asana_task(task_name, project_id, encoding, outcome) ==
    CASE outcome.kind = "transport" -> OnException(encoding, outcome, NetworkFailure)
      [] outcome.kind = "unexpected" -> OnException(encoding, outcome, UnexpectedFailure)
      [] OTHER -> IF outcome.code = Created
                  THEN Returns(OnCreated(task_name, project_id, outcome))
                  ELSE Returns(OnOtherStatus(encoding, outcome))

\* create_asana_task_from_jira_webhook from the return of create_asana_task
\* on.  An exception that left create_asana_task reaches the except clause;
\* there log_message(traceback.format_exc()) prints the chained exceptions,
\* the first of which holds the text that could not be printed, and raises
\* in its turn: the exception leaves the function.
AfterCall(called) ==
    IF called.returned THEN Returns(called.result) ELSE Escapes

(***************************************************************************)
(* create_asana_task_from_jira_webhook, up to the call of                  *)
(* create_asana_task: raised tells that an exception reached the except    *)
(* clause (.get on a value that is no dict raises AttributeError; the      *)
(* log_message of the key and the summary raises UnicodeEncodeError).      *)
(* The except clause prints str(e) and the traceback of these exceptions,  *)
(* which are ASCII, and returns the processing Failure.                    *)
(***************************************************************************)
\* f"[{jira_key}] {summary}"
TaskName(jira_key, summary) ==
    <<"[">> \o PyStr(jira_key) \o <<"]", " ">> \o PyStr(summary)

\* Variant: the Description section is always added.
TaskNotesAlwaysDescription(jira_key, summary, description_text) ==
    S_JiraIssue \o PyStr(jira_key) \o S_OriginalSummary \o PyStr(summary)
    \o S_BlankLine \o S_Description \o description_text

\* f"Jira Issue: {jira_key}\nOriginal Summary: {summary}\n\n", then
\* f"Description:\n{description_text}" if description_text
TaskNotes(jira_key, summary, description_text) ==
    S_JiraIssue \o PyStr(jira_key) \o S_OriginalSummary \o PyStr(summary)
    \o S_BlankLine
    \o (IF Len(description_text) > 0 THEN S_Description \o description_text ELSE <<>>)

\* description_text
DescriptionText(description) ==
    IF IsDict(description) THEN extract_text_from_adf(description)
    ELSE IF Truthy(description) THEN PyStr(description)
    ELSE <<>>

Raised == [raised |-> TRUE, task_name |-> <<>>, task_notes |-> <<>>]

EmptyDict == JDict(<<>>, <<>>)

\* log_message(f"Processing Jira issue: {jira_key} - {summary}")
ProcessingLine(jira_key, summary) ==
    PyStr(jira_key) \o <<" ", "-", " ">> \o PyStr(summary)

Compose(issue, fields, encoding) ==
    [raised |-> log_message_raises(encoding,
                    ProcessingLine(Get(issue, S_key, JStr(S_UNKNOWN)),
                                   Get(fields, S_summary, JStr(S_NoTitle)))),
     task_name |-> TaskName(Get(issue, S_key, JStr(S_UNKNOWN)),
                            Get(fields, S_summary, JStr(S_NoTitle))),
     task_notes |-> TaskNotes(Get(issue, S_key, JStr(S_UNKNOWN)),
                              Get(fields, S_summary, JStr(S_NoTitle)),
                              DescriptionText(Get(fields, S_description, JStr(<<>>))))]

create_asana_task_from_jira_webhook(data, encoding) ==
    IF ~IsDict(data) THEN Raised
    ELSE IF ~IsDict(Get(data, S_issue, EmptyDict)) THEN Raised
    ELSE IF ~IsDict(Get(Get(data, S_issue, EmptyDict), S_fields, EmptyDict)) THEN Raised
    ELSE Compose(Get(data, S_issue, EmptyDict),
                 Get(Get(data, S_issue, EmptyDict), S_fields, EmptyDict),
                 encoding)

(***************************************************************************)
(* Inputs of the webhook.                                                  *)
(***************************************************************************)
S_ABC1 == <<"A", "B", "C", "-", "1">>
S_FixBug == <<"F", "i", "x", " ", "b", "u", "g">>
S_999 == <<"9", "9", "9">>
S_1200 == <<"1", "2", "0", "0">>

\* A dict of the given keys, without the keys whose value is Absent.
Present(pair) == pair[2] # Absent

DictOf(pairs) ==
    JDict([i \in 1..Len(SelectSeq(pairs, Present)) |-> SelectSeq(pairs, Present)[i][1]],
          [i \in 1..Len(SelectSeq(pairs, Present)) |-> SelectSeq(pairs, Present)[i][2]])

IssueEvent(key, fields) ==
    DictOf(<<  <<S_issue, DictOf(<< <<S_key, key>>, <<S_fields, fields>> >>)>>  >>)

Fields(summary, description) ==
    DictOf(<< <<S_summary, summary>>, <<S_description, description>> >>)

S_cafe == <<"c", "a", "f", EAcute>>
S_done == <<"d", "o", "n", "e", " ", Emoji>>
S_bad == <<"b", "a", "d", " ", Surrogate>>

KeyValues == {Absent, JStr(S_ABC1), JNull, JStr(<<Surrogate>>)}

SummaryValues == {Absent, JStr(S_FixBug), JNull, JStr(S_cafe), JStr(S_done), JStr(S_bad)}

\* Documents of a description: paragraphs of text, and values that are no
\* object.
DescriptionBlocks ==
    {Paragraph(JList(c)) : c \in SeqsUpTo({TextNode(JStr(<<"a">>)), TextNode(JStr(<<>>)), JInt(5)}, MaxInline)}
    \cup {JInt(5)}

DescriptionDocs ==
    {Doc(JList(c)) : c \in SeqsUpTo(DescriptionBlocks, MaxDescBlocks)} \cup OddDocs

\* Descriptions that are no document.
PlainDescriptions ==
    {Absent, JNull, JStr(<<>>), JStr(S_Hello), JInt(0), JInt(7), JList(<<>>),
     JList(<<JInt(1)>>)}

\* The JSON values a request body parses to.
Payloads ==
    {IssueEvent(k, Fields(s, d)) :
        k \in KeyValues, s \in SummaryValues, d \in PlainDescriptions}
    \cup {IssueEvent(JStr(S_ABC1), Fields(JStr(S_FixBug), d)) :
            d \in DescriptionDocs \cup {JStr(S_cafe), JStr(S_bad)}}
    \cup {IssueEvent(k, Absent) :
            k \in {JList(<<JStr(<<Surrogate>>)>>), JList(<<JStr(<<EAcute>>)>>)}}
    \cup {IssueEvent(k, f) : k \in KeyValues, f \in {Absent, JNull, JStr(<<"x">>), JList(<<>>)}}
    \cup {DictOf(<< <<S_issue, i>> >>) : i \in {Absent, JNull, JStr(<<"x">>), JList(<<>>)}}
    \cup {JNull, JList(<<>>), JStr(S_Hello), JInt(7)}

\* is_json: the Content-Type says JSON; parses: the body is JSON text.
Requests ==
    {[is_json |-> TRUE, parses |-> TRUE, data |-> d] : d \in Payloads}
    \cup {[is_json |-> TRUE, parses |-> FALSE, data |-> Absent],
          [is_json |-> FALSE, parses |-> FALSE, data |-> Absent],
          [is_json |-> FALSE, parses |-> TRUE,
           data |-> IssueEvent(JStr(S_ABC1), Fields(JStr(S_FixBug), Absent))]}

\* ASANA_PROJECT_ID = os.getenv("ASANA_PROJECT_ID"): a string, or None.
Projects == {JStr(S_1200), JNull}

\* The encoding of sys.stdout.
Stdouts == {"utf-8", "cp1252", "ascii"}

\* response.text, and the text of an exception.
MessageTexts == {<<"r", "a", "w">>, S_cafe, S_done, S_bad}

ResponseBodies ==
    {DictOf(<< <<S_data, DictOf(<< <<S_gid, g>> >>)>> >>) : g \in {JStr(S_999), JInt(7), JNull, Absent}}
    \cup {DictOf(<< <<S_data, d>> >>) : d \in {Absent, JNull, JStr(<<"x">>)}}
    \cup {JList(<<>>), JNull}

OtherStatusCodes == {200, 401, 500}

NoOutcome == Outcome("none", 0, FALSE, Absent, "", <<>>)

Outcomes ==
    {Outcome("status", Created, TRUE, b, "", <<>>) : b \in ResponseBodies}
    \cup {Outcome("status", Created, FALSE, Absent, e, <<>>) : e \in {"network", "task_creation"}}
    \cup {Outcome("status", c, FALSE, Absent, "", t) : c \in OtherStatusCodes, t \in MessageTexts}
    \cup {Outcome("transport", 0, FALSE, Absent, "", t) : t \in MessageTexts}
    \cup {Outcome("unexpected", 0, FALSE, Absent, "", t) : t \in MessageTexts}

(***************************************************************************)
(* The webhook: one request at a time (requests share no data).            *)
(*   pc: "idle" -> "received" -> ("posting" ->) "responded" -> "idle"      *)
(*   project, stdout: the environment of the process                       *)
(*   outbox: the POSTs issued for the request                              *)
(*   reply: what came of the POST, NoOutcome before it ends                *)
(*   task_result: what create_asana_task returned, NoResult if not called  *)
(*   responses: the HTTP responses given to the request                    *)
(***************************************************************************)
Response(code, body) == [code |-> code, body |-> body]

NoRequest == [is_json |-> FALSE, parses |-> FALSE, data |-> Absent]

Init ==
    /\ pc = "idle"
    /\ request = NoRequest
    /\ project \in Projects
    /\ stdout \in Stdouts
    /\ outbox = <<>>
    /\ reply = NoOutcome
    /\ task_result = NoResult
    /\ responses = <<>>
    /\ adf_pc = "off"
    /\ adf_in = JNull
    /\ adf_out = <<>>

\* A request arrives at POST /jira-webhook.
Receive ==
    /\ pc = "idle"
    /\ \E r \in Requests : request' = r
    /\ pc' = "received"
    /\ UNCHANGED <<project, stdout, outbox, reply, task_result, responses, adf_in, adf_out, adf_pc>>

\* jira_webhook, up to its answer or to the POST create_asana_task issues.
jira_webhook ==
    /\ pc = "received"
    /\ IF ~request.is_json
       THEN /\ responses' = Append(responses, Response(400, ExpectedJsonBody))
            /\ pc' = "responded"
            /\ UNCHANGED <<outbox, task_result>>
       ELSE IF ~request.parses
       THEN /\ responses' = Append(responses, Response(400, BadRequestPage))
            /\ pc' = "responded"
            /\ UNCHANGED <<outbox, task_result>>
       ELSE IF create_asana_task_from_jira_webhook(request.data, stdout).raised
       THEN /\ responses' = Append(responses, Response(200, ProcessingFailure))
            /\ pc' = "responded"
            /\ UNCHANGED <<outbox, task_result>>
       ELSE /\ outbox' = SendRequest(outbox,
                            Payload(create_asana_task_from_jira_webhook(request.data, stdout).task_name,
                                    create_asana_task_from_jira_webhook(request.data, stdout).task_notes,
                                    project))
            /\ pc' = "posting"
            /\ UNCHANGED <<responses, task_result>>
    /\ UNCHANGED <<request, project, stdout, reply, adf_in, adf_out, adf_pc>>

\* The POST ends: create_asana_task classifies the outcome, and
\* create_asana_task_from_jira_webhook and jira_webhook hand the result on;
\* an exception that leaves them is answered by the framework with 500.
AsanaResponds ==
    /\ pc = "posting"
    /\ \E o \in Outcomes :
          /\ reply' = o
          /\ task_result' = create_asana_task(outbox[1].name, project, stdout, o).result
          /\ responses' =
                IF AfterCall(create_asana_task(outbox[1].name, project, stdout, o)).returned
                THEN Append(responses,
                        Response(200, AfterCall(create_asana_task(outbox[1].name, project, stdout, o)).result))
                ELSE Append(responses, Response(500, InternalErrorPage))
    /\ pc' = "responded"
    /\ UNCHANGED <<request, project, stdout, outbox, adf_in, adf_out, adf_pc>>

\* The request is over; nothing of it is kept.
Done ==
    /\ pc = "responded"
    /\ pc' = "idle"
    /\ request' = NoRequest
    /\ outbox' = <<>>
    /\ reply' = NoOutcome
    /\ task_result' = NoResult
    /\ responses' = <<>>
    /\ UNCHANGED <<project, stdout, adf_in, adf_out, adf_pc>>

Next == Receive \/ jira_webhook \/ AsanaResponds \/ Done

Spec == Init /\ [][Next]_vars

(***************************************************************************)
(* Specification of the normalizer alone: one input, one application.      *)
(***************************************************************************)
InitNormalize ==
    /\ adf_pc = "input"
    /\ adf_in \in NormalizeInputs
    /\ adf_out = <<>>
    /\ pc = "off"
    /\ request = NoRequest
    /\ project = JNull
    /\ stdout = "utf-8"
    /\ outbox = <<>>
    /\ reply = NoOutcome
    /\ task_result = NoResult
    /\ responses = <<>>

Normalize ==
    /\ adf_pc = "input"
    /\ adf_out' = extract_text_from_adf(adf_in)
    /\ adf_pc' = "done"
    /\ UNCHANGED <<adf_in, pc, request, project, stdout, outbox, reply, task_result, responses>>

NextNormalize == Normalize

SpecNormalize == InitNormalize /\ [][NextNormalize]_vars

(***************************************************************************)
(* Properties of the normalizer.                                           *)
(***************************************************************************)
RECURSIVE Count(_, _)
Count(s, c) == IF s = <<>> THEN 0
               ELSE (IF Head(s) = c THEN 1 ELSE 0) + Count(Tail(s), c)

Newlines(s) == Count(s, "\n")

BlocksOf(doc) == Get(doc, S_content, JNull).items

\* A text node whose text is a string without a newline.
PlainTextNode(node) ==
    /\ IsDict(node)
    /\ Get(node, S_type, JNull) = JStr(S_text)
    /\ Get(node, S_text, JNull).t = "str"
    /\ Newlines(Get(node, S_text, JNull).s) = 0

\* A paragraph block holding zero or more such text nodes.
PlainParagraph(block) ==
    /\ IsDict(block)
    /\ Get(block, S_type, JNull) = JStr(S_paragraph)
    /\ Get(block, S_content, JNull).t = "list"
    /\ \A i \in 1..Len(Get(block, S_content, JNull).items) :
          PlainTextNode(Get(block, S_content, JNull).items[i])

\* A well-formed document: N >= 1 blocks, all of them such paragraphs.
PlainDoc(doc) ==
    /\ IsDict(doc)
    /\ Get(doc, S_content, JNull).t = "list"
    /\ Len(BlocksOf(doc)) >= 1
    /\ \A i \in 1..Len(BlocksOf(doc)) : PlainParagraph(BlocksOf(doc)[i])

\* The paragraph has some text node with a non-empty text.
HasText(block) ==
    \E i \in 1..Len(Get(block, S_content, JNull).items) :
        Len(Get(Get(block, S_content, JNull).items[i], S_text, JNull).s) > 0

TextParagraphs(doc) ==
    Cardinality({i \in 1..Len(BlocksOf(doc)) : HasText(BlocksOf(doc)[i])})

\* C3 as stated: a well-formed document of N >= 1 paragraphs normalizes to a
\* string with exactly N-1 newline separators, a paragraph without text
\* being kept as an empty segment.
C3_Original ==
    (adf_pc = "done" /\ PlainDoc(adf_in))
        => Newlines(adf_out) = Len(BlocksOf(adf_in)) - 1

\* C3 as amended: a well-formed document of N >= 1 paragraphs, K of which
\* hold some non-empty text, normalizes to a string with exactly K-1 newline
\* separators (none when K = 0): a paragraph that yields empty text is
\* skipped, not kept as an empty segment.
C3_SeparatorsCountTextParagraphs ==
    (adf_pc = "done" /\ PlainDoc(adf_in))
        => Newlines(adf_out) =
              (IF TextParagraphs(adf_in) = 0 THEN 0 ELSE TextParagraphs(adf_in) - 1)

\* Two paragraphs, one of them without text, normalized to one segment.
C3_Witness ==
    /\ adf_pc = "done"
    /\ PlainDoc(adf_in)
    /\ Len(BlocksOf(adf_in)) = 2
    /\ TextParagraphs(adf_in) = 1
    /\ Newlines(adf_out) = 0
    /\ Len(adf_out) > 0

\* The document's content cannot be walked as a sequence of objects: it is
\* not iterable, or iterating it yields a value that is no object.
BrokenContent(doc) ==
    /\ IsDict(doc)
    /\ Has(doc, S_content)
    /\ \/ ~Iterable(Get(doc, S_content, JNull))
       \/ \E i \in 1..Len(Elements(Get(doc, S_content, JNull))) :
              ~IsDict(Elements(Get(doc, S_content, JNull))[i])

\* A paragraph block whose list of inline nodes holds a value that is no object.
BrokenParagraph(block) ==
    /\ IsDict(block)
    /\ Get(block, S_type, JNull) = JStr(S_paragraph)
    /\ Get(block, S_content, JNull).t = "list"
    /\ \E i \in 1..Len(Get(block, S_content, JNull).items) :
          ~IsDict(Get(block, S_content, JNull).items[i])

HasBrokenParagraph(doc) ==
    /\ IsDict(doc)
    /\ Get(doc, S_content, JNull).t = "list"
    /\ \E i \in 1..Len(BlocksOf(doc)) : BrokenParagraph(BlocksOf(doc)[i])

IsSound(block) == ~BrokenParagraph(block)

\* The document without its broken paragraphs.
WithoutBrokenParagraphs(doc) ==
    JDict(doc.keys,
          [i \in 1..Len(doc.keys) |->
              IF doc.keys[i] = S_content
              THEN JList(SelectSeq(doc.items[i].items, IsSound))
              ELSE doc.items[i]])

\* C9 as stated: whenever the traversal hits a malformed substructure
\* (content that is no sequence, a block that is no object, an inline node
\* of a paragraph that is no object) the result is the string rendering of
\* the whole input, never a partial extraction.
C9_Original ==
    (adf_pc = "done" /\ (BrokenContent(adf_in) \/ HasBrokenParagraph(adf_in)))
        => adf_out = PyStr(adf_in)

\* C9 as amended: the normalizer returns a string for every input; when the
\* document's content is not iterable or holds a block that is no object the
\* result is the string rendering of the whole input; a value that is no
\* document is rendered as a string; but an inline node that is no object
\* only empties its own paragraph: the paragraph is dropped and the result
\* is the extraction of the document without it.
C9_FallbackOnlyForBrokenContent ==
    adf_pc = "done" =>
        /\ BrokenContent(adf_in) => adf_out = PyStr(adf_in)
        /\ ~IsDict(adf_in) => adf_out = PyStr(adf_in)
        /\ (HasBrokenParagraph(adf_in) /\ ~BrokenContent(adf_in))
              => adf_out = extract_text_from_adf(WithoutBrokenParagraphs(adf_in))

\* A broken paragraph beside a sound one: a partial extraction, and a
\* document with a block that is no object: the rendering of the input.
C9_Witness ==
    /\ adf_pc = "done"
    /\ HasBrokenParagraph(adf_in)
    /\ ~BrokenContent(adf_in)
    /\ Len(adf_out) > 0
    /\ adf_out # PyStr(adf_in)

(***************************************************************************)
(* Properties of the webhook.                                              *)
(***************************************************************************)
S_Issue == <<"I", "s", "s", "u", "e", ":", " ">>
S_UnknownNoTitle == <<"[", "U", "N", "K", "N", "O", "W", "N", "]", " ", "N", "o", " ", "T", "i", "t", "l", "e">>
S_ScenarioANotes == <<"I", "s", "s", "u", "e", ":", " ", "A", "B", "C", "-", "1", "\n", "O", "r", "i", "g", "i", "n", "a", "l", " ", "S", "u", "m", "m", "a", "r", "y", ":", " ", "F", "i", "x", " ", "b", "u", "g", "\n", "\n">>
S_Jira == <<"J", "i", "r", "a", " ">>

\* The request is JSON: it says so and its body parses.
JsonRequest == request.is_json /\ request.parses

\* The body of a response is a TaskResult.
IsTaskResult(body) == body.status \in {"success", "error"} /\ "status" \in body.keys

\* s ends with suffix
EndsWith(s, suffix) ==
    /\ Len(s) >= Len(suffix)
    /\ SubSeq(s, Len(s) - Len(suffix) + 1, Len(s)) = suffix

\* s starts with prefix
StartsWith(s, prefix) ==
    /\ Len(s) >= Len(prefix)
    /\ SubSeq(s, 1, Len(prefix)) = prefix

\* The fields of the payload, where it has them.
IssueOf(data) == IF IsDict(data) THEN Get(data, S_issue, Absent) ELSE Absent
KeyOf(data) == IF IsDict(IssueOf(data)) THEN Get(IssueOf(data), S_key, Absent) ELSE Absent
FieldsOf(data) == IF IsDict(IssueOf(data)) THEN Get(IssueOf(data), S_fields, Absent) ELSE Absent
SummaryOf(data) == IF IsDict(FieldsOf(data)) THEN Get(FieldsOf(data), S_summary, Absent) ELSE Absent
DescriptionOf(data) == IF IsDict(FieldsOf(data)) THEN Get(FieldsOf(data), S_description, Absent) ELSE Absent

\* The key and the summary as a task shows them: the default when absent.
KeyShown(data) == IF KeyOf(data) = Absent THEN S_UNKNOWN ELSE PyStr(KeyOf(data))
SummaryShown(data) == IF SummaryOf(data) = Absent THEN S_NoTitle ELSE PyStr(SummaryOf(data))

\* The normalized description: empty when absent or falsy.
NormalizedText(data) ==
    IF DescriptionOf(data) = Absent THEN <<>> ELSE DescriptionText(DescriptionOf(data))

\* The payload is an object, and so are its issue and the issue's fields
\* where present.
Shaped(data) ==
    /\ IsDict(data)
    /\ IssueOf(data) = Absent \/ IsDict(IssueOf(data))
    /\ FieldsOf(data) = Absent \/ IsDict(FieldsOf(data))

\* C1 as stated: a JSON request gets exactly one TaskResult and causes at
\* most one POST to the task-creation endpoint, whatever the outcome of the
\* POST: the call is never repeated and no second result is produced.
C1_Original ==
    /\ Len(outbox) <= 1
    /\ Len(responses) <= 1
    /\ (pc = "responded" /\ JsonRequest)
          => (Len(responses) = 1 /\ IsTaskResult(responses[1].body))
    /\ pc \in {"idle", "received", "posting"} => responses = <<>>
    /\ (pc = "responded" /\ reply # NoOutcome) => Len(outbox) = 1

\* C2 as stated: the endpoint answers 400 with the body {status: "error",
\* message: "Expected JSON data"} if and only if the request is not JSON,
\* and answers every JSON request with 200 and the TaskResult.
C2_Original ==
    pc = "responded" =>
        /\ (responses[1].code = 400 /\ responses[1].body = ExpectedJsonBody) <=> ~JsonRequest
        /\ JsonRequest => (responses[1].code = 200 /\ IsTaskResult(responses[1].body))

\* C4 as stated: the notes passed to create_asana_task are
\* "Issue: {key}\nOriginal Summary: {summary}\n\n", followed by
\* "Description:\n{text}" if and only if the normalized text is non-empty.
C4_Original ==
    pc = "posting" =>
        outbox[1].notes =
            S_Issue \o KeyShown(request.data) \o S_OriginalSummary
            \o SummaryShown(request.data) \o S_BlankLine
            \o (IF Len(NormalizedText(request.data)) > 0
                THEN S_Description \o NormalizedText(request.data) ELSE <<>>)

\* C4 as amended: the notes passed to create_asana_task are
\* "Jira Issue: {key}\nOriginal Summary: {summary}\n\n", followed by
\* "Description:\n{text}" if and only if the normalized description text is
\* non-empty; for key ABC-1, summary "Fix bug" and no description they are
\* "Jira Issue: ABC-1\nOriginal Summary: Fix bug\n\n".
C4_NotesStartWithJiraIssue ==
    pc = "posting" =>
        /\ outbox[1].notes =
              S_JiraIssue \o KeyShown(request.data) \o S_OriginalSummary
              \o SummaryShown(request.data) \o S_BlankLine
              \o (IF Len(NormalizedText(request.data)) > 0
                  THEN S_Description \o NormalizedText(request.data) ELSE <<>>)
        /\ request.data = IssueEvent(JStr(S_ABC1), Fields(JStr(S_FixBug), Absent))
              => outbox[1].notes = S_Jira \o S_ScenarioANotes

\* Scenario A: key ABC-1, summary "Fix bug", no description.
C4_Witness ==
    /\ pc = "posting"
    /\ request.data = IssueEvent(JStr(S_ABC1), Fields(JStr(S_FixBug), Absent))
    /\ outbox[1].notes = S_Jira \o S_ScenarioANotes
    /\ ~EndsWith(outbox[1].notes, S_Description)

\* C5 as stated, for the payloads it names (objects in which issue, the key
\* or the summary may be absent): create_asana_task is called with the name
\* "[{key}] {summary}", an absent key replaced by "UNKNOWN" and an absent
\* summary by "No Title".
C5_Original ==
    (pc \in {"posting", "responded"} /\ JsonRequest /\ Shaped(request.data)) =>
        /\ Len(outbox) = 1
        /\ outbox[1].name =
              <<"[">> \o KeyShown(request.data) \o <<"]", " ">> \o SummaryShown(request.data)

\* The identifier of the created task in the response body, where it has one.
GidOf(body) ==
    IF IsDict(body) /\ IsDict(Get(body, S_data, Absent))
    THEN Get(Get(body, S_data, Absent), S_gid, Absent)
    ELSE Absent

\* C6: whenever the destination answers the POST with 201 the result is a
\* Success whose task_id is data.gid of the response body and whose URL
\* ends in "/{project}/{task_id}"; when the identifier is absent, for any
\* response body, the task_id is "Unknown" and the result still a Success.
C6_Original ==
    (pc = "responded" /\ reply.kind = "status" /\ reply.code = Created) =>
        /\ task_result.status = "success"
        /\ task_result.task_id =
              (IF GidOf(reply.body) = Absent THEN JStr(S_Unknown) ELSE GidOf(reply.body))
        /\ EndsWith(task_result.asana_url,
                    <<"/">> \o PyStr(project) \o <<"/">> \o PyStr(task_result.task_id))

\* C7 as stated, the kind "api" being the error_type "asana_api" of the
\* code: a status s other than 201 gives a Failure of kind api with status
\* code s, a transport failure one of kind "network", any other failure of
\* the call one of kind "task_creation".
C7_Original ==
    (pc = "responded" /\ reply # NoOutcome) =>
        /\ (reply.kind = "status" /\ reply.code # Created)
              => /\ task_result.status = "error"
                 /\ task_result.error_type = "asana_api"
                 /\ task_result.status_code = reply.code
        /\ reply.kind = "transport"
              => (task_result.status = "error" /\ task_result.error_type = "network")
        /\ reply.kind = "unexpected"
              => (task_result.status = "error" /\ task_result.error_type = "task_creation")

\* C8 as stated: create_asana_task_from_jira_webhook never lets an exception
\* reach its caller: the request is answered with a TaskResult, and a
\* payload that makes the extraction raise (it is no object, or its issue or
\* fields is no object) gets a Failure whose error_type is "processing".
C8_Original ==
    (pc = "responded" /\ JsonRequest) =>
        /\ responses[1].code = 200
        /\ IsTaskResult(responses[1].body)
        /\ ~Shaped(request.data)
              => /\ responses[1].body.status = "error"
                 /\ responses[1].body.error_type = "processing"
                 /\ responses[1].body.keys = {"status", "message", "error_type"}

\* C10 as stated: a Failure of kind "processing" means no POST was issued;
\* once the POST is issued the result is a Success or a Failure of kind api
\* (error_type "asana_api"), network or task_creation, as create_asana_task
\* produced it, and the caller gets it unchanged.
C10_Original ==
    pc = "responded" =>
        /\ responses[1].body.error_type = "processing" => outbox = <<>>
        /\ outbox # <<>>
              => /\ responses[1].body = task_result
                 /\ \/ task_result.status = "success"
                    \/ /\ task_result.status = "error"
                       /\ task_result.error_type \in {"asana_api", "network", "task_creation"}

====
